---- MODULE Spec2Model ----
(***************************************************************************)
(* File Work Logger: the watcher thread(s), the shared SQLite connection   *)
(* and the foreground (tkinter) operations of src/File-work_logger.py.     *)
(*                                                                         *)
(* Text is modelled as a sequence of one-character strings, so that        *)
(* startswith / strip / lower / suffix are computed, not assumed.          *)
(* A timestamp text is the triple <<day, separator, second-of-day>>: the   *)
(* fixed-width fields of 'YYYY-MM-DD?HH:MM:SS' compared field by field.    *)
(***************************************************************************)
EXTENDS Integers, Sequences, FiniteSets, TLC

\* ------------------------------------------------------------------ bounds
MaxEvents == 2   \* INSERTs the watcher attempts: rows held plus logged failures
MaxOps    == 2   \* operations the user starts in the window
MaxRows   == 2   \* rows of file_events a query or an export is applied to
MaxTokens == 3   \* words of a phrase given to parse_nl_query
MaxPieces == 4   \* pieces a memo given to parse_memo is made of
MaxDepth  == 3   \* components of a path given to is_safe_watch_dir
MaxDays   == 21  \* consecutive days on which a due date is computed

\* None / SQL NULL in a path column (a record, so that it compares with paths)
NULL == [parent |-> <<"NULL">>, name |-> <<>>]

\* ------------------------------------------------------------------- text
LowerCh(c) ==
    CASE c = "T" -> "t" [] c = "X" -> "x" [] c = "D" -> "d"
      [] c = "O" -> "o" [] c = "C" -> "c" [] c = "N" -> "n"
      [] c = "R" -> "r" [] OTHER -> c

\* str.lower()
Lower(s) == [i \in DOMAIN s |-> LowerCh(s[i])]

IsSpace(c) == c \in {" ", "\n"}

RECURSIVE LStrip(_)
LStrip(s) == IF s # <<>> /\ IsSpace(Head(s)) THEN LStrip(Tail(s)) ELSE s

RECURSIVE RStrip(_)
RStrip(s) ==
    IF s # <<>> /\ IsSpace(s[Len(s)]) THEN RStrip(SubSeq(s, 1, Len(s) - 1)) ELSE s

\* str.strip()
Strip(s) == RStrip(LStrip(s))

\* str.startswith('.')
StartsWithDot(s) == s # <<>> /\ Head(s) = "."

\* str.rfind('.'), 1-based, 0 when absent
RFindDot(s) ==
    LET hits == {i \in DOMAIN s : s[i] = "."}
    IN  IF hits = {} THEN 0 ELSE CHOOSE i \in hits : \A j \in hits : j <= i

\* pathlib: PurePath.suffix of the final component
Suffix(name) ==
    LET i == RFindDot(name)
    IN  IF 1 < i /\ i < Len(name) THEN SubSeq(name, i, Len(name)) ELSE <<>>

Range(seq) == {seq[k] : k \in DOMAIN seq}

\* ------------------------------------------------------------------ paths
\* A directory is the sequence of its components; a file path is its parent
\* directory and its final component (the text pathlib takes the suffix of).
HomeDir == <<"home", "u">>
DocsDir == <<"home", "u", "docs">>
EtcDir  == <<"etc">>
GoneDir == <<"home", "u", "gone">>

\* The directories that exist (os.path.isdir).
ExistingDirs == {HomeDir, DocsDir, EtcDir}

IsPrefix(a, b) == Len(a) <= Len(b) /\ SubSeq(b, 1, Len(a)) = a

PathTxt == [parent |-> DocsDir, name |-> <<"n", ".", "T", "X", "T">>]
PathDoc == [parent |-> DocsDir, name |-> <<"r", ".", "d", "o", "c">>]
PathSub == [parent |-> DocsDir, name |-> <<"d", ".", "t", "x", "t">>]

DirPaths  == {PathSub}

\* ---------------------------------------------------------------- clock
\* datetime.now(): local wall-clock time, read as an input at each use.
Clock == {[day |-> 1, sec |-> 2]}

\* datetime.isoformat(timespec='seconds'): 'YYYY-MM-DDTHH:MM:SS'
IsoT(t) == <<t.day, "T", t.sec>>

\* datetime.isoformat(sep=' '): 'YYYY-MM-DD HH:MM:SS'
IsoSpace(t) == <<t.day, " ", t.sec>>

\* ---------------------------------------------------------- the database
\* SCHEMA_SQL: the settings row INSERT OR IGNORE creates on first run.
DEFAULT_REMIND_HOUR == 9

SCHEMA_SQL ==
    [file_events |-> <<>>,
     tasks       |-> <<>>,
     settings    |-> [watch_dir |-> <<>>, extensions |-> <<>>,
                      remind_hour |-> DEFAULT_REMIND_HOUR],
     seq_events  |-> 0,      \* sqlite_sequence row of file_events (AUTOINCREMENT)
     seq_tasks   |-> 0]      \* sqlite_sequence row of tasks

\* ------------------------------------------------------- notifications
EventKinds == {"created", "modified", "moved", "deleted"}

\* What watchdog hands to a handler method: ev.event_type (which on_* method the
\* observer dispatches to), ev.is_directory, ev.src_path and, for a move,
\* ev.dest_path.  The files: n.TXT is created and deleted, r.doc is modified,
\* n.TXT is moved to r.doc; the directory d.txt undergoes all four.
FileEventsOf(kind) ==
    IF kind = "moved"
    THEN {[event_type |-> kind, is_directory |-> FALSE,
           src_path |-> PathTxt, dest_path |-> PathDoc]}
    ELSE {[event_type |-> kind, is_directory |-> FALSE,
           src_path |-> IF kind = "modified" THEN PathDoc ELSE PathTxt,
           dest_path |-> NULL]}

DirEventsOf(kind) ==
    {[event_type |-> kind, is_directory |-> TRUE, src_path |-> s,
      dest_path |-> IF kind = "moved" THEN s ELSE NULL] : s \in DirPaths}

Notifications(kind) == FileEventsOf(kind) \cup DirEventsOf(kind)

\* ------------------------------------------------ FSHandler (watcher side)
\* FSHandler.__init__: self.exts = {e.lower().strip() for e in exts if e.strip()}
FSHandler_exts(exts) ==
    {Strip(Lower(exts[i])) : i \in {j \in DOMAIN exts : Strip(exts[j]) # <<>>}}


\* Mutation of LogPath: the extension is always taken from the source path.
LogPathSrcOnly(src, dst) == src

\* _log, line 188: p = Path(dst or src); ext = p.suffix.lower()
LogPath(src, dst) == IF dst # NULL THEN dst ELSE src

LogExt(src, dst) == Lower(Suffix(LogPath(src, dst).name))

\* _log, line 189: if self.exts and ext not in self.exts: return
Accepts(hexts, src, dst) == hexts = {} \/ LogExt(src, dst) \in hexts

\* _log, lines 190-195: the row the INSERT writes.  id comes from AUTOINCREMENT.
EventRow(db, etype, src, dst, now) ==
    [id         |-> db.seq_events + 1,
     file_name  |-> LogPath(src, dst).name,
     event_time |-> IsoT(now),
     ext        |-> LogExt(src, dst),
     dir        |-> LogPath(src, dst).parent,
     event_type |-> etype,
     src_path   |-> src,
     dest_path  |-> dst]


\* Mutation of InsertEvent: INSERT OR REPLACE that overwrites the table's rows.
InsertEventReplacing(db, row) ==
    [db EXCEPT !.file_events = <<row>>, !.seq_events = row.id]

\* The INSERT of _log executed on the connection.
InsertEvent(db, row) ==
    [db EXCEPT !.file_events = Append(@, row), !.seq_events = row.id]

\* ------------------------------------------------------------- utilities
\* A symbolic link in the home directory that points outside it.
LinkDir == <<"home", "u", "link">>

\* Path.resolve(), not strict: the components are walked from the root, ".."
\* leaves the directory reached so far (the root stays the root), a symbolic
\* link is replaced by its target, a component that does not exist is kept.
RECURSIVE Walk(_, _)
Walk(at, rest) ==
    IF rest = <<>> THEN at
    ELSE IF Head(rest) = ".."
         THEN Walk(IF at = <<>> THEN <<>> ELSE SubSeq(at, 1, Len(at) - 1), Tail(rest))
    ELSE LET q == Append(at, Head(rest))
         IN  Walk(IF q = LinkDir THEN EtcDir ELSE q, Tail(rest))

Resolve(p) == Walk(<<>>, p)

\* A path with a NUL character: resolve() raises ValueError.
Malformed(p) == "NUL" \in Range(p)

\* is_safe_watch_dir: (home in p.parents) or (p == home), on resolved paths;
\* False when resolve() raises.
is_safe_watch_dir(p) == IF Malformed(p) THEN FALSE ELSE IsPrefix(HomeDir, Resolve(p))

\* ------------------------------------------------------------------ memo
TITLE_MAX   == 120
DETAILS_MAX == 500

Take(s, n) == SubSeq(s, 1, IF n < Len(s) THEN n ELSE Len(s))

\* first i with s[i..i+1] = "\n\n", 0 when absent
FindBlank(s) ==
    LET hits == {i \in 1..(Len(s) - 1) : s[i] = "\n" /\ s[i + 1] = "\n"}
    IN  IF hits = {} THEN 0 ELSE CHOOSE i \in hits : \A j \in hits : i <= j

\* str.split("\n\n")
RECURSIVE SplitBlocks(_)
SplitBlocks(s) ==
    LET i == FindBlank(s)
    IN  IF i = 0 THEN <<s>>
        ELSE <<SubSeq(s, 1, i - 1)>> \o SplitBlocks(SubSeq(s, i + 2, Len(s)))

\* str.splitlines() of a stripped block
RECURSIVE SplitLines(_)
SplitLines(s) ==
    LET hits == {i \in DOMAIN s : s[i] = "\n"}
        i    == CHOOSE k \in hits : \A j \in hits : k <= j
    IN  IF hits = {} THEN <<s>>
        ELSE <<SubSeq(s, 1, i - 1)>> \o
             (IF i = Len(s) THEN <<>> ELSE SplitLines(SubSeq(s, i + 1, Len(s))))

\* " ".join(lines)
RECURSIVE JoinSpace(_)
JoinSpace(lines) ==
    IF lines = <<>> THEN <<>>
    ELSE IF Len(lines) = 1 THEN lines[1]
    ELSE lines[1] \o <<" ">> \o JoinSpace(Tail(lines))

\* Mutation of KeepNonBlank: blank blocks are stripped and kept.
KeepBlank(bs) == [k \in DOMAIN bs |-> Strip(bs[k])]

\* [b.strip() for b in ... if b.strip()]
RECURSIVE KeepNonBlank(_)
KeepNonBlank(bs) ==
    IF bs = <<>> THEN <<>>
    ELSE (IF Strip(Head(bs)) # <<>> THEN <<Strip(Head(bs))>> ELSE <<>>)
         \o KeepNonBlank(Tail(bs))

parse_memo(text) ==
    LET blocks == KeepNonBlank(SplitBlocks(Strip(text)))
    IN  [i \in DOMAIN blocks |->
            LET lines == SplitLines(blocks[i])
            IN  [idx     |-> i,
                 title   |-> Take(lines[1], TITLE_MAX),
                 details |-> Take(JoinSpace(Tail(lines)), DETAILS_MAX)]]

\* save_tasks, lines 268-269: the items whose idx is in indices, in item order
RECURSIVE Selected(_, _)
Selected(items, indices) ==
    IF items = <<>> THEN <<>>
    ELSE (IF Head(items).idx \in indices THEN <<Head(items)>> ELSE <<>>)
         \o Selected(Tail(items), indices)

\* save_tasks, lines 270-271: the row one INSERT writes.  call is bookkeeping of
\* the model: the sqlite_sequence value at which the save_tasks call began and
\* the number of items the call selected.
TaskRow(db, it, due_date, now, call) ==
    [id         |-> db.seq_tasks + 1,
     task_text  |-> <<it.idx, it.title>>,
     due_date   |-> due_date,
     status     |-> "pending",
     created_at |-> IsoT(now),
     call       |-> call]

InsertTask(db, row) ==
    [db EXCEPT !.tasks = Append(@, row), !.seq_tasks = row.id]

\* get_due_tasks: SELECT id,task_text ... WHERE due_date=? AND status='pending'
\* ORDER BY id.  tasks holds its rows in the order of their AUTOINCREMENT ids.
get_due_tasks(db, date_str) ==
    LET rows == SelectSeq(db.tasks,
                          LAMBDA t : t.due_date = date_str /\ t.status = "pending")
    IN  [k \in DOMAIN rows |-> [id |-> rows[k].id, task_text |-> rows[k].task_text]]

\* --------------------------------------------------------- query / export
\* The characters of the path components and of the event kinds.
Chars(w) ==
    CASE w = "home"     -> <<"h", "o", "m", "e">>
      [] w = "u"        -> <<"u">>
      [] w = "docs"     -> <<"d", "o", "c", "s">>
      [] w = "etc"      -> <<"e", "t", "c">>
      [] w = "gone"     -> <<"g", "o", "n", "e">>
      [] w = "created"  -> <<"c", "r", "e", "a", "t", "e", "d">>
      [] w = "modified" -> <<"m", "o", "d", "i", "f", "i", "e", "d">>
      [] w = "moved"    -> <<"m", "o", "v", "e", "d">>
      [] w = "deleted"  -> <<"d", "e", "l", "e", "t", "e", "d">>

\* str(p.parent), str(path)
RECURSIVE DirText(_)
DirText(dir) ==
    IF dir = <<>> THEN <<>> ELSE <<"/">> \o Chars(Head(dir)) \o DirText(Tail(dir))

PathText(p) == IF p = NULL THEN <<>> ELSE DirText(p.parent) \o <<"/">> \o p.name

\* column LIKE '%k%': k occurs in the text, ASCII letters compared without case.
Like(text, k) ==
    \E i \in 1..(Len(text) - Len(k) + 1) :
        SubSeq(Lower(text), i, i + Len(k) - 1) = Lower(k)

\* event_time is a TEXT column, compared byte by byte: the date, then the
\* separator (' ' is 0x20, 'T' is 0x54), then the time of day.  Date and time of
\* day are zero-padded digits of fixed width, ordered as the numbers are.
SepByte(c) == IF c = " " THEN 32 ELSE 84

TextLeq(a, b) ==
    \/ a[1] < b[1]
    \/ a[1] = b[1] /\ SepByte(a[2]) < SepByte(b[2])
    \/ a[1] = b[1] /\ a[2] = b[2] /\ a[3] <= b[3]

\* search_events, lines 230-232.  '' and None add no condition.
MatchesKeyword(r, keyword) ==
    keyword # <<>> =>
        \/ Like(r.file_name, keyword)
        \/ Like(DirText(r.dir), keyword)
        \/ Like(Chars(r.event_type), keyword)

\* search_events, lines 233-234
MatchesTime(r, start, end) ==
    /\ start # <<>> => TextLeq(start, r.event_time)
    /\ end # <<>> => TextLeq(r.event_time, end)

\* search_events, lines 235-240: ext_filter is a list (ext IN ...) or one text
MatchesExt(r, ext_filter) ==
    IF ext_filter.list
    THEN LET exts == {Lower(e) : e \in Range(ext_filter.v) \ {<<>>}}
         IN  exts # {} => r.ext \in exts
    ELSE ext_filter.v # <<>> => r.ext = Lower(ext_filter.v)

\* search_events, lines 241-242
MatchesTypes(r, event_types) ==
    event_types # <<>> => r.event_type \in Range(event_types)

\* Mutation of IndexBefore: rows of equal event_time in insertion order.
IndexBeforeOldestFirst(a, b) ==
    /\ TextLeq(b.event_time, a.event_time)
    /\ a.event_time = b.event_time => a.id < b.id

\* ORDER BY event_time DESC is answered by walking idx_events_time backwards:
\* the index holds (event_time, rowid), so a comes before b if its event_time
\* is greater, or equal with the greater rowid.
IndexBefore(a, b) ==
    /\ TextLeq(b.event_time, a.event_time)
    /\ a.event_time = b.event_time => a.id > b.id

RECURSIVE ScanDesc(_)
ScanDesc(S) ==
    IF S = {} THEN <<>>
    ELSE LET first == CHOOSE x \in S : \A y \in S \ {x} : IndexBefore(x, y)
         IN  <<first>> \o ScanDesc(S \ {first})

LIMIT == 1000

search_events(db, keyword, start, end, ext_filter, event_types) ==
    Take(ScanDesc({r \in Range(db.file_events) :
                      /\ MatchesKeyword(r, keyword)
                      /\ MatchesTime(r, start, end)
                      /\ MatchesExt(r, ext_filter)
                      /\ MatchesTypes(r, event_types)}),
         LIMIT)

CSV_HEADER ==
    <<"file_name", "event_time", "ext", "dir", "event_type", "src_path", "dest_path">>

\* One record csv.writer writes for a row: the seven columns selected, each as
\* text, None as the empty text.
CsvLine(r) ==
    <<r.file_name, r.event_time, r.ext, DirText(r.dir), Chars(r.event_type),
      PathText(r.src_path), PathText(r.dest_path)>>

\* export_csv: the header, then every row of the table.
export_csv(db) ==
    LET rows == ScanDesc(Range(db.file_events))
    IN  <<CSV_HEADER>> \o [k \in DOMAIN rows |-> CsvLine(rows[k])]

\* ------------------------------------------------------- calendar (datetime)
\* A date is a proleptic Gregorian day number (date.toordinal()); a datetime is
\* [day, sec]: the day number and the second of the day.
IsLeap(y) == (y % 4 = 0 /\ y % 100 # 0) \/ y % 400 = 0

DaysInMonth(y, m) ==
    IF m = 2 THEN (IF IsLeap(y) THEN 29 ELSE 28)
    ELSE IF m \in {4, 6, 9, 11} THEN 30 ELSE 31

DaysBeforeYear(y) == 365 * (y - 1) + (y - 1) \div 4 - (y - 1) \div 100 + (y - 1) \div 400

RECURSIVE DaysBeforeMonth(_, _)
DaysBeforeMonth(y, m) ==
    IF m = 1 THEN 0 ELSE DaysBeforeMonth(y, m - 1) + DaysInMonth(y, m - 1)

toordinal(y, m, d) == DaysBeforeYear(y) + DaysBeforeMonth(y, m) + d

\* date.weekday(): Monday is 0, Sunday is 6
weekday(day) == (day + 6) % 7

\* The last second of a day, 23:59:59.
LAST_SECOND == 86399

\* ------------------------------------------------------------ text, further
\* k in text
Contains(text, k) ==
    \E i \in 1..(Len(text) - Len(k) + 1) : SubSeq(text, i, i + Len(k) - 1) = k

\* text.replace(' ', '')
RemoveSpaces(t) == SelectSeq(t, LAMBDA c : c # " ")

\* text.replace(',', ' ')
CommasToSpaces(t) == [i \in DOMAIN t |-> IF t[i] = "," THEN " " ELSE t[i]]

\* str.split(): the maximal runs of non-whitespace characters
RECURSIVE Split(_)
Split(t) ==
    LET u    == LStrip(t)
        ends == {i \in DOMAIN u : IsSpace(u[i])}
        e    == CHOOSE i \in ends : \A j \in ends : i <= j
    IN  IF u = <<>> THEN <<>>
        ELSE IF ends = {} THEN <<u>>
        ELSE <<SubSeq(u, 1, e - 1)>> \o Split(SubSeq(u, e + 1, Len(u)))

\* str.split('~', 1): the text before the first '~' and the text after it
SplitTilde(t) ==
    LET hits == {i \in DOMAIN t : t[i] = "~"}
        i    == CHOOSE k \in hits : \A j \in hits : k <= j
    IN  [a |-> SubSeq(t, 1, i - 1), b |-> SubSeq(t, i + 1, Len(t))]

IsDigit(c) == c \in {"0", "1", "2", "3", "4", "5", "6", "7", "8", "9"}

DigitVal(c) ==
    CASE c = "0" -> 0 [] c = "1" -> 1 [] c = "2" -> 2 [] c = "3" -> 3 [] c = "4" -> 4
      [] c = "5" -> 5 [] c = "6" -> 6 [] c = "7" -> 7 [] c = "8" -> 8 [] c = "9" -> 9

\* int() of a run of digits
RECURSIVE IntOf(_)
IntOf(ds) == IF ds = <<>> THEN 0 ELSE 10 * IntOf(SubSeq(ds, 1, Len(ds) - 1)) + DigitVal(ds[Len(ds)])

\* datetime.fromisoformat(s + ' 00:00:00') for a text s of at most ten
\* characters: the day number of 'YYYY-MM-DD', or 0 where it raises ValueError.
fromisoformat(s) ==
    IF /\ Len(s) = 10
       /\ \A i \in {1, 2, 3, 4, 6, 7, 9, 10} : IsDigit(s[i])
       /\ s[5] = "-" /\ s[8] = "-"
    THEN LET y == IntOf(SubSeq(s, 1, 4))
             m == IntOf(SubSeq(s, 6, 7))
             d == IntOf(SubSeq(s, 9, 10))
         IN  IF y >= 1 /\ m \in 1..12 /\ d >= 1 /\ d <= DaysInMonth(y, m)
             THEN toordinal(y, m, d) ELSE 0
    ELSE 0

\* ------------------------------------------------------------ parse_nl_query
\* A Hangul syllable is written as its code point: "U+C624" is the one
\* character U+C624.
TODAY      == <<"U+C624", "U+B298">>
YESTERDAY  == <<"U+C5B4", "U+C81C">>
THIS_WEEK  == <<"U+C774", "U+BC88", "U+C8FC">>
LAST_WEEK  == <<"U+C9C0", "U+B09C", "U+C8FC">>
THIS_MONTH == <<"U+C774", "U+BC88", "U+B2EC">>
LAST_MONTH == <<"U+C9C0", "U+B09C", "U+B2EC">>

\* events_map, in the order of the dict literal
events_map ==
    <<[k |-> <<"U+C0DD", "U+C131">>, v |-> "created"],
       [k |-> <<"U+B9CC", "U+B4E4">>, v |-> "created"],
       [k |-> <<"U+CD94", "U+AC00">>, v |-> "created"],
       [k |-> <<"U+C218", "U+C815">>, v |-> "modified"],
       [k |-> <<"U+BCC0", "U+ACBD">>, v |-> "modified"],
       [k |-> <<"U+C774", "U+B3D9">>, v |-> "moved"],
       [k |-> <<"U+C62E", "U+AE30">>, v |-> "moved"],
       [k |-> <<"U+C0AD", "U+C81C">>, v |-> "deleted"],
       [k |-> <<"U+C5C6", "U+C5B4", "U+C9C0">>, v |-> "deleted"],
       [k |-> <<"U+C81C", "U+AC70">>, v |-> "deleted"]>>

\* ext_syn, in the order of the dict literal
ext_syn ==
    <<[k |-> <<"U+C6CC", "U+B4DC">>,
        v |-> <<<<".", "d", "o", "c">>, <<".", "d", "o", "c", "x">>>>],
       [k |-> <<"U+C5D1", "U+C140">>,
        v |-> <<<<".", "x", "l", "s">>, <<".", "x", "l", "s", "x">>>>],
       [k |-> <<"U+D55C", "U+AE00">>,
        v |-> <<<<".", "h", "w", "p">>>>],
       [k |-> <<"U+D30C", "U+C6CC", "U+D3EC", "U+C778", "U+D2B8">>,
        v |-> <<<<".", "p", "p", "t">>, <<".", "p", "p", "t", "x">>>>],
       [k |-> <<"U+D30C", "U+D3EC">>,
        v |-> <<<<".", "p", "p", "t">>, <<".", "p", "p", "t", "x">>>>],
       [k |-> <<"p", "d", "f">>,
        v |-> <<<<".", "p", "d", "f">>>>],
       [k |-> <<"U+D14D", "U+C2A4", "U+D2B8">>,
        v |-> <<<<".", "t", "x", "t">>>>],
       [k |-> <<"U+C774", "U+BBF8", "U+C9C0">>,
        v |-> <<<<".", "p", "n", "g">>, <<".", "j", "p", "g">>, <<".", "j", "p", "e", "g">>>>],
       [k |-> <<"U+C0AC", "U+C9C4">>,
        v |-> <<<<".", "p", "n", "g">>, <<".", "j", "p", "g">>, <<".", "j", "p", "e", "g">>>>]>>

\* drop
drop ==
    {<<"U+C624", "U+B298">>,
     <<"U+C5B4", "U+C81C">>,
     <<"U+C774", "U+BC88">>,
     <<"U+C9C0", "U+B09C">>,
     <<"U+C774", "U+BC88", "U+C8FC">>,
     <<"U+C9C0", "U+B09C", "U+C8FC">>,
     <<"U+C774", "U+BC88", "U+B2EC">>,
     <<"U+C9C0", "U+B09C", "U+B2EC">>,
     <<"U+D30C", "U+C77C">>,
     <<"U+D655", "U+C7A5", "U+C790">>,
     <<"U+C911">>,
     <<"U+D3EC", "U+D568">>}

NoRange == [none |-> TRUE, s |-> [day |-> 0, sec |-> 0], e |-> [day |-> 0, sec |-> 0]]

DayRange(first, last) ==
    [none |-> FALSE, s |-> [day |-> first, sec |-> 0], e |-> [day |-> last, sec |-> LAST_SECOND]]

\* drange, lines 145-149: the text holds a '~'
TildeRange(t) ==
    IF ~Contains(t, <<"~">>) THEN NoRange
    ELSE LET s == fromisoformat(Take(Strip(SplitTilde(t).a), 10))
             e == fromisoformat(Take(Strip(SplitTilde(t).b), 10))
         IN  IF s # 0 /\ e # 0 THEN DayRange(s, e) ELSE NoRange

\* drange, lines 150-154: the first token of the shape ????-??-?* that parses
RECURSIVE TokenRange(_)
TokenRange(parts) ==
    IF parts = <<>> THEN NoRange
    ELSE LET part == Head(parts)
             day  == IF Len(part) >= 10 /\ part[5] = "-" /\ part[8] = "-"
                     THEN fromisoformat(Take(part, 10)) ELSE 0
         IN  IF day # 0 THEN DayRange(day, day) ELSE TokenRange(Tail(parts))

\* drange, lines 127-155.  now is [y, m, d]: the date datetime.now() gives.
drange(t, now) ==
    LET d0 == toordinal(now.y, now.m, now.d)
        t2 == RemoveSpaces(t)
        m1 == toordinal(now.y, now.m, 1)
        nm == IF now.m = 12 THEN toordinal(now.y + 1, 1, 1)
              ELSE toordinal(now.y, now.m + 1, 1)
        pm == IF now.m = 1 THEN toordinal(now.y - 1, 12, 1)
              ELSE toordinal(now.y, now.m - 1, 1)
    IN  IF Contains(t2, TODAY) THEN DayRange(d0, d0)
        ELSE IF Contains(t2, YESTERDAY) THEN DayRange(d0 - 1, d0 - 1)
        ELSE IF Contains(t2, THIS_WEEK)
             THEN DayRange(d0 - weekday(d0), d0 - weekday(d0) + 6)
        ELSE IF Contains(t2, LAST_WEEK)
             THEN DayRange(d0 - (weekday(d0) + 7), d0 - (weekday(d0) + 7) + 6)
        ELSE IF Contains(t2, THIS_MONTH) THEN DayRange(m1, nm - 1)
        ELSE IF Contains(t2, LAST_MONTH) THEN DayRange(pm, m1 - 1)
        ELSE IF ~TildeRange(t).none THEN TildeRange(t)
        ELSE TokenRange(Split(t))

\* lines 158-160: event_types
RECURSIVE EventTypes(_, _, _)
EventTypes(text, k, acc) ==
    IF k > Len(events_map) THEN acc
    ELSE EventTypes(text, k + 1,
            IF Contains(text, events_map[k].k) /\ events_map[k].v \notin Range(acc)
            THEN Append(acc, events_map[k].v) ELSE acc)

\* lines 164-166: the tokens that start with '.' and have at most six characters
RECURSIVE DotTokens(_)
DotTokens(toks) ==
    IF toks = <<>> THEN <<>>
    ELSE (IF StartsWithDot(Head(toks)) /\ Len(Head(toks)) <= 6
          THEN <<Lower(Head(toks))>> ELSE <<>>) \o DotTokens(Tail(toks))

\* line 170: for e in lst: if e not in extensions: extensions.append(e)
RECURSIVE AppendNew(_, _)
AppendNew(acc, lst) ==
    IF lst = <<>> THEN acc
    ELSE AppendNew(IF Head(lst) \in Range(acc) THEN acc ELSE Append(acc, Head(lst)),
                   Tail(lst))

\* lines 167-170: the synonyms found in the lowercased text
RECURSIVE Synonyms(_, _, _)
Synonyms(tl, k, acc) ==
    IF k > Len(ext_syn) THEN acc
    ELSE Synonyms(tl, k + 1,
            IF Contains(tl, Lower(ext_syn[k].k)) THEN AppendNew(acc, ext_syn[k].v) ELSE acc)

\* lines 174-179: the tokens kept as keywords
RECURSIVE KeptTokens(_)
KeptTokens(toks) ==
    IF toks = <<>> THEN <<>>
    ELSE LET tok == Head(toks)
             skip == \/ tok \in drop
                     \/ StartsWithDot(tok)
                     \/ \E k \in DOMAIN events_map : Contains(tok, events_map[k].k)
                     \/ \E k \in DOMAIN ext_syn : Lower(tok) = ext_syn[k].k
         IN  (IF skip THEN <<>> ELSE <<tok>>) \o KeptTokens(Tail(toks))

\* parse_nl_query(''): the empty dict
NoNl ==
    [empty |-> TRUE, keyword |-> <<>>, start |-> <<>>, end |-> <<>>,
     event_types |-> <<>>, extensions |-> <<>>]

\* parse_nl_query.  None is <<>>.
parse_nl_query(nlq, now) ==
    LET text == Strip(nlq)
        toks == Split(CommasToSpaces(text))
        r    == drange(text, now)
    IN  IF text = <<>> THEN NoNl
        ELSE [empty       |-> FALSE,
              keyword     |-> JoinSpace(KeptTokens(toks)),
              start       |-> IF r.none THEN <<>> ELSE IsoSpace(r.s),
              end         |-> IF r.none THEN <<>> ELSE IsoSpace(r.e),
              event_types |-> EventTypes(text, 1, <<>>),
              extensions  |-> Synonyms(Lower(text), 1, DotTokens(toks))]

\* ------------------------------------------------------- next_business_day
\* while nd.weekday() >= 5: nd += timedelta(days=1)
RECURSIVE SkipWeekend(_)
SkipWeekend(day) == IF weekday(day) >= 5 THEN SkipWeekend(day + 1) ELSE day

\* next_business_day.  datetime.replace raises ValueError for an hour that is
\* not in 0..23.
next_business_day(dt, hour) ==
    IF hour \in 0..23
    THEN [raised |-> FALSE, day |-> SkipWeekend(dt.day + 1), sec |-> hour * 3600]
    ELSE [raised |-> TRUE, day |-> 0, sec |-> 0]

\* ------------------------------------------------------------------ state
VARIABLES
    disk,      \* the database file: what is committed
    conn,      \* App.conn, the one connection every thread uses: the committed
               \* content plus the changes of its open transaction
    watcher,   \* App.watcher: NoWatcher or a MultiWatcher
    threads,   \* the observer threads, by slot
    main,      \* where the foreground (tkinter) thread is
    ui,        \* the message box open on the screen ("none": none)
    log,       \* number of "log error" lines written by _log
    ops,       \* foreground operations started so far
    query,     \* the last search_events call: its arguments and the rows returned
    csv,       \* the file export_csv wrote, as its records (<<>>: none written)
    call       \* a function applied on its own: its name, its arguments and,
               \* once applied (done), what it returned

vars == <<disk, conn, watcher, threads, main, ui, log, ops, query, csv, call>>

ThreadIds == {1, 2}

NoWatcher == [made |-> FALSE, paths |-> <<>>, exts |-> <<>>, observer |-> 0]

\* MultiWatcher.__init__
MultiWatcher(paths, exts) ==
    [made |-> TRUE, paths |-> paths, exts |-> exts, observer |-> 0]

NoRow == [id |-> 0]

NoEvent == [event_type |-> "none", is_directory |-> FALSE,
            src_path |-> NULL, dest_path |-> NULL]

\* A thread inside a callback keeps the notification it handles and the row it
\* inserted (bookkeeping of the model).
NoCallback == [ev |-> NoEvent, row |-> NoRow]

NoThread == [state |-> "none", paths |-> <<>>, exts |-> {}, pc |-> "idle",
             cb |-> NoCallback]

Idle == [op |-> "idle"]

NoCall == [fn |-> "none", done |-> FALSE]

NoQuery ==
    [done |-> FALSE, keyword |-> <<>>, start |-> <<>>, end |-> <<>>,
     ext_filter |-> [list |-> FALSE, v |-> <<>>], event_types |-> <<>>, rows |-> <<>>]

\* What e_dir can hold, as d.split(';') sees it (a blank segment is <<>>).
DirInputs ==
    { << <<>> >>, <<DocsDir>>, << <<>>, <<>> >>, <<DocsDir, EtcDir>>, <<GoneDir>> }

\* What e_ext_all can hold, as exts_raw.split(';') sees it.
ExtInputs ==
    { << <<>> >>,
      << <<"T", "X", "T">>, <<" ", ".", "d", "o", "c">> >> }

\* What t_memo can hold.
MemoTexts == { <<"A", "\n", "\n", "B", "\n", "C", "\n">> }

DueDates == {2}

\* What e_rhour can hold once int() has read it.  An entry of 2^63 or more does
\* not fit an SQLite INTEGER and makes the UPDATE raise OverflowError; such a
\* number is beyond the 32-bit integers of the model, so only that fact is kept.
HourInputs == {[n |-> 25, int64 |-> TRUE], [n |-> 0, int64 |-> FALSE]}

\* SCHEMA_SQL line 77 writes '' into watch_dir and extensions: ''.split(';') is [''].
InitialDb ==
    [SCHEMA_SQL EXCEPT !.settings.watch_dir = << <<>> >>,
                       !.settings.extensions = << <<>> >>]

Init ==
    /\ disk = InitialDb
    /\ conn = disk
    /\ watcher = NoWatcher
    /\ threads = [i \in ThreadIds |-> NoThread]
    /\ main = Idle
    /\ ui = "none"
    /\ log = 0
    /\ ops = 0
    /\ query = NoQuery
    /\ csv = <<>>
    /\ call = NoCall

\* The user starts an operation: the window is idle (any message box closed).
Starts ==
    /\ main = Idle
    /\ ops < MaxOps
    /\ ops' = ops + 1


\* Mutation of Caught: an except clause that names TypeError only.
CaughtTypeErrorOnly(exc) == exc \in {"TypeError"}

\* ---------------------------------------------------------- watcher thread
\* `except Exception` of _log, line 196: what it catches.
Caught(exc) == exc \in {"sqlite3.Error", "TypeError", "OSError"}

\* The callback of thread i returns (or dies with an uncaught exception): the
\* thread goes back to waiting for notifications, or ends if stop() was called.
Returned(i, raised) ==
    threads' = [threads EXCEPT ![i] =
        IF raised THEN [@ EXCEPT !.state = "crashed", !.pc = "idle", !.cb = NoCallback]
        ELSE IF @.state = "stopping" THEN NoThread
        ELSE [@ EXCEPT !.pc = "idle", !.cb = NoCallback]]

\* FSHandler._log up to and including conn.execute(INSERT).
_log(i, etype, ev, src, dst) ==
    \/ /\ ~Accepts(threads[i].exts, src, dst)                  \* line 189: return
       /\ UNCHANGED <<disk, conn, threads, log>>
    \/ /\ Accepts(threads[i].exts, src, dst)
       /\ Len(conn.file_events) + log < MaxEvents
       /\ \E now \in Clock :
            LET row == EventRow(conn, etype, src, dst, now)
            IN  /\ conn' = InsertEvent(conn, row)
                /\ threads' = [threads EXCEPT ![i].pc = "commit",
                                              ![i].cb = [ev |-> ev, row |-> row]]
       /\ UNCHANGED <<disk, log>>
    \/ /\ Accepts(threads[i].exts, src, dst)                   \* the INSERT raises
       /\ Len(conn.file_events) + log < MaxEvents
       /\ conn' = disk                                         \* __exit__: rollback
       /\ log' = IF Caught("sqlite3.Error") THEN log + 1 ELSE log
       /\ Returned(i, ~Caught("sqlite3.Error"))
       /\ UNCHANGED disk

\* A notification reaches thread i only while it runs and only for a path
\* below one of the roots it was scheduled on.
Delivers(i, ev) ==
    /\ threads[i].state = "running"
    /\ threads[i].pc = "idle"
    /\ \E k \in DOMAIN threads[i].paths : IsPrefix(threads[i].paths[k], ev.src_path.parent)

Handler(i, etype, ev, src, dst) ==
    /\ Delivers(i, ev)
    /\ IF ev.is_directory
       THEN UNCHANGED <<disk, conn, threads, log>>
       ELSE _log(i, etype, ev, src, dst)
    /\ UNCHANGED <<watcher, main, ui, ops, query, csv, call>>

on_created(i, ev)  == Handler(i, "created", ev, ev.src_path, NULL)

on_modified(i, ev) == Handler(i, "modified", ev, ev.src_path, NULL)

on_moved(i, ev)    == Handler(i, "moved", ev, ev.src_path, ev.dest_path)

on_deleted(i, ev)  == Handler(i, "deleted", ev, ev.src_path, NULL)

\* _log, line 191: the with-block's __exit__ commits the connection.
LogCommit(i) ==
    /\ threads[i].pc = "commit"
    /\ disk' = conn
    /\ Returned(i, FALSE)
    /\ UNCHANGED <<conn, watcher, main, ui, log, ops, query, csv, call>>

\* ------------------------------------------------------------ MultiWatcher
\* Observer.stop(): the thread is told to stop.  It takes no further
\* notification; if it is inside a callback it ends when the callback returns.
ObserverStop(ths, i) ==
    [ths EXCEPT ![i] = IF @.pc = "idle" THEN NoThread ELSE [@ EXCEPT !.state = "stopping"]]


\* Mutation of MultiWatcher_start: no test of self.observer before starting.
MultiWatcher_startUnguarded(w, ths, tid) ==
    [w   |-> [w EXCEPT !.observer = tid],
     ths |-> [ths EXCEPT ![tid] =
                 [state |-> "running", paths |-> w.paths,
                  exts |-> FSHandler_exts(w.exts), pc |-> "idle", cb |-> NoCallback]]]

\* MultiWatcher.start, lines 215-218, given a free thread slot tid:
\* the watcher afterwards and the threads afterwards.
MultiWatcher_start(w, ths, tid) ==
    IF w.observer # 0
    THEN [w |-> w, ths |-> ths]                                      \* line 215: return
    ELSE [w   |-> [w EXCEPT !.observer = tid],
          ths |-> [ths EXCEPT ![tid] =
                      [state |-> "running", paths |-> w.paths,
                       exts |-> FSHandler_exts(w.exts), pc |-> "idle", cb |-> NoCallback]]]


\* Mutation of MultiWatcher_stopped: stop() that keeps self.observer.
MultiWatcher_stoppedKeeping(w) == w

\* MultiWatcher.stop, line 221 after observer.stop(): join(timeout=5) returns,
\* the thread ended or not, and the observer is forgotten.
MultiWatcher_stopped(w) == [w EXCEPT !.observer = 0]

\* ---------------------------------------------------- foreground: watching
\* start_watch, line 406
RECURSIVE NonBlank(_)
NonBlank(segs) ==
    IF segs = <<>> THEN <<>>
    ELSE (IF Head(segs) # <<>> THEN <<Head(segs)>> ELSE <<>>) \o NonBlank(Tail(segs))

\* start_watch, line 404: d (stripped) is the empty text
FieldEmpty(d) == Len(d) = 1 /\ d[1] = <<>>

\* Mutation of BadDirs: only os.path.isdir is tested.
BadDirsMissingOnly(dirs) ==
    {k \in DOMAIN dirs : dirs[k] \notin ExistingDirs}

\* start_watch, lines 407-410
BadDirs(dirs) ==
    {k \in DOMAIN dirs : dirs[k] \notin ExistingDirs \/ ~is_safe_watch_dir(dirs[k])}

\* start_watch, line 413
WatchExts(exts_raw) ==
    [k \in DOMAIN exts_raw |->
        IF StartsWithDot(exts_raw[k]) THEN exts_raw[k]
        ELSE IF exts_raw[k] # <<>> THEN <<".">> \o exts_raw[k] ELSE <<>>]

\* messagebox.show*: "info", "warning" or "error"; "exception" is the traceback Tk
\* reports for an exception that leaves the callback.  The box is modal: the next
\* foreground operation begins once it is closed ("none").
Shows(msg) == ui' = msg

\* start_watch, lines 402-416 up to conn.execute(UPDATE settings)
start_watch(d, exts_raw) ==
    /\ Starts
    /\ \/ /\ FieldEmpty(d)
          /\ Shows("warning")
          /\ UNCHANGED <<conn, main>>
       \/ /\ ~FieldEmpty(d)
          /\ BadDirs(NonBlank(d)) # {}
          /\ Shows("error")
          /\ UNCHANGED <<conn, main>>
       \/ /\ ~FieldEmpty(d)
          /\ BadDirs(NonBlank(d)) = {}
          /\ conn' = [conn EXCEPT !.settings.watch_dir = d,
                                  !.settings.extensions = exts_raw]
          /\ main' = [op |-> "start_watch", step |-> "commit",
                      dirs |-> NonBlank(d), exts |-> WatchExts(exts_raw)]
          /\ Shows("none")
       \/ /\ ~FieldEmpty(d)                       \* the UPDATE raises: rollback,
          /\ BadDirs(NonBlank(d)) = {}            \* the exception leaves start_watch
          /\ conn' = disk
          /\ Shows("exception")
          /\ UNCHANGED main
    /\ UNCHANGED <<disk, watcher, threads, log, query, csv, call>>

\* start_watch, line 415: the with-block commits
start_commit ==
    /\ main.op = "start_watch" /\ main.step = "commit"
    /\ disk' = conn
    /\ main' = [main EXCEPT !.step = IF watcher.observer # 0 THEN "stop" ELSE "start"]
    /\ UNCHANGED <<conn, watcher, threads, ui, log, ops, query, csv, call>>

\* start_watch, line 419: self.watcher.stop() calls observer.stop()
start_stop ==
    /\ main.op = "start_watch" /\ main.step = "stop"
    /\ threads' = ObserverStop(threads, watcher.observer)
    /\ main' = [main EXCEPT !.step = "join"]
    /\ UNCHANGED <<disk, conn, watcher, ui, log, ops, query, csv, call>>

\* start_watch, line 419: observer.join(timeout=5) returns; observer = None
start_join ==
    /\ main.op = "start_watch" /\ main.step = "join"
    /\ watcher' = MultiWatcher_stopped(watcher)
    /\ main' = [main EXCEPT !.step = "start"]
    /\ UNCHANGED <<disk, conn, threads, ui, log, ops, query, csv, call>>

\* start_watch, lines 420-424: a new MultiWatcher is made and started
start_new ==
    /\ main.op = "start_watch" /\ main.step = "start"
    /\ \/ \E tid \in ThreadIds :
            LET r == MultiWatcher_start(MultiWatcher(main.dirs, main.exts), threads, tid)
            IN  /\ threads[tid].state = "none"
                /\ \A j \in ThreadIds : threads[j].state = "none" => tid <= j
                /\ watcher' = r.w
                /\ threads' = r.ths
                /\ Shows("info")
       \/ /\ watcher' = MultiWatcher(main.dirs, main.exts)   \* Observer is None, or
          /\ Shows("error")                                   \* schedule()/start() raises:
          /\ UNCHANGED threads                                \* caught at line 423
    /\ main' = Idle
    /\ UNCHANGED <<disk, conn, log, ops, query, csv, call>>

\* stop_watch, lines 427-428 up to observer.stop()
stop_watch ==
    /\ Starts
    /\ \/ /\ ~watcher.made                                   \* nothing to stop
          /\ Shows("none")
          /\ UNCHANGED <<watcher, threads, main>>
       \/ /\ watcher.made /\ watcher.observer = 0            \* made, never started
          /\ watcher' = NoWatcher
          /\ Shows("info")
          /\ UNCHANGED <<threads, main>>
       \/ /\ watcher.made /\ watcher.observer # 0
          /\ threads' = ObserverStop(threads, watcher.observer)
          /\ main' = [op |-> "stop_watch", step |-> "join"]
          /\ Shows("none")
          /\ UNCHANGED watcher
    /\ UNCHANGED <<disk, conn, log, query, csv, call>>

\* stop_watch, line 428: join returns, observer = None, self.watcher = None
stop_join ==
    /\ main.op = "stop_watch"
    /\ watcher' = NoWatcher
    /\ Shows("info")
    /\ main' = Idle
    /\ UNCHANGED <<disk, conn, threads, log, ops, query, csv, call>>

\* ------------------------------------------------------- foreground: tasks
\* save_tasks, line 266: the memo is parsed; the with-block is entered
save_tasks(indices, text, due_date, now) ==
    /\ Starts
    /\ main' = [op |-> "save_tasks",
                todo |-> Selected(parse_memo(text), indices),
                due_date |-> due_date, now |-> now,
                call |-> [start |-> conn.seq_tasks,
                          size  |-> Len(Selected(parse_memo(text), indices))]]
    /\ Shows("none")
    /\ UNCHANGED <<disk, conn, watcher, threads, log, query, csv, call>>

\* save_tasks, lines 268-271: one INSERT of the loop
save_insert ==
    /\ main.op = "save_tasks"
    /\ main.todo # <<>>
    /\ \/ /\ conn' = InsertTask(conn,
                 TaskRow(conn, Head(main.todo), main.due_date, main.now, main.call))
          /\ main' = [main EXCEPT !.todo = Tail(@)]
          /\ UNCHANGED ui
       \/ /\ conn' = disk                       \* the INSERT raises: __exit__ rolls
                                                \* back, the exception leaves save_tasks
          /\ main' = Idle
          /\ Shows("exception")
    /\ UNCHANGED <<disk, watcher, threads, log, ops, query, csv, call>>

\* save_tasks, line 267: the with-block's __exit__ commits
save_commit ==
    /\ main.op = "save_tasks"
    /\ main.todo = <<>>
    /\ disk' = conn
    /\ main' = Idle
    /\ Shows("info")
    /\ UNCHANGED <<conn, watcher, threads, log, ops, query, csv, call>>

\* ---------------------------------------------------- foreground: reminder
\* schedule_daily, line 501 up to conn.execute(UPDATE settings)
schedule_daily(hour) ==
    /\ Starts
    /\ \/ /\ hour.int64
          /\ conn' = [conn EXCEPT !.settings.remind_hour = hour.n]
          /\ main' = [op |-> "schedule_daily"]
          /\ Shows("none")
       \/ /\ ~hour.int64                         \* OverflowError: rollback, the
          /\ conn' = disk                         \* exception leaves schedule_daily
          /\ Shows("exception")
          /\ UNCHANGED main
    /\ UNCHANGED <<disk, watcher, threads, log, query, csv, call>>

\* schedule_daily, line 501: the with-block commits; lines 502-503
schedule_commit ==
    /\ main.op = "schedule_daily"
    /\ disk' = conn
    /\ main' = Idle
    /\ Shows("info")
    /\ UNCHANGED <<conn, watcher, threads, log, ops, query, csv, call>>

\* ------------------------------------------------------------------- next
Next ==
    \/ \E i \in ThreadIds : \E ev \in Notifications("created")  : on_created(i, ev)
    \/ \E i \in ThreadIds : \E ev \in Notifications("modified") : on_modified(i, ev)
    \/ \E i \in ThreadIds : \E ev \in Notifications("moved")    : on_moved(i, ev)
    \/ \E i \in ThreadIds : \E ev \in Notifications("deleted")  : on_deleted(i, ev)
    \/ \E i \in ThreadIds : LogCommit(i)
    \/ \E d \in DirInputs : \E x \in ExtInputs : start_watch(d, x)
    \/ start_commit
    \/ start_stop
    \/ start_join
    \/ start_new
    \/ stop_watch
    \/ stop_join
    \/ \E ix \in SUBSET {1, 2} \ {{}} : \E t \in MemoTexts :
           \E due \in DueDates : \E now \in Clock : save_tasks(ix, t, due, now)
    \/ save_insert
    \/ save_commit
    \/ \E h \in HourInputs : schedule_daily(h)
    \/ schedule_commit

Spec == Init /\ [][Next]_vars

\* join(timeout=5) returns after five seconds at the latest.
FairSpec == Spec /\ WF_vars(stop_join) /\ WF_vars(start_join)

\* ------------------------------------------------- queries over any store
\* The instants at which the rows of a store were logged.
StoredInstants == {[day |-> 1, sec |-> 5], [day |-> 2, sec |-> 1]}

\* The kinds of notification the rows of a store were logged for.
StoredKinds == {"created", "moved", "deleted"}

\* The stores n INSERTs of _log, each committed, can leave.
RECURSIVE StoresOf(_)
StoresOf(n) ==
    IF n = 0 THEN {InitialDb}
    ELSE LET S == StoresOf(n - 1)
         IN  S \cup {InsertEvent(db, EventRow(db, e.event_type, e.src_path, e.dest_path, t)) :
                        db \in S,
                        e \in UNION {FileEventsOf(kind) : kind \in StoredKinds},
                        t \in StoredInstants}

\* What search_events can be called with: texts for keyword, start and end ('' or
\* None: <<>>), a text or a list for ext_filter, a list or None for event_types.
Keywords == {<<>>, <<"N">>, <<"t", "e", "d">>}

TimeTexts == {<<>>, IsoSpace([day |-> 2, sec |-> 9]), IsoT([day |-> 2, sec |-> 1])}

ExtFilters ==
    {[list |-> FALSE, v |-> <<>>],
     [list |-> FALSE, v |-> <<".", "T", "X", "T">>],
     [list |-> TRUE,  v |-> << <<".", "D", "o", "c">>, <<>> >>]}

TypeFilters == {<<>>, <<"moved", "created">>}

QInit ==
    /\ conn \in StoresOf(MaxRows)
    /\ disk = conn
    /\ watcher = NoWatcher
    /\ threads = [i \in ThreadIds |-> NoThread]
    /\ main = Idle
    /\ ui = "none"
    /\ log = 0
    /\ ops = 0
    /\ query \in {[NoQuery EXCEPT !.keyword = k, !.start = st, !.end = en,
                                   !.ext_filter = xf, !.event_types = ty] :
                     k \in Keywords, st \in TimeTexts, en \in TimeTexts,
                     xf \in ExtFilters, ty \in TypeFilters}
    /\ csv = <<>>
    /\ call = NoCall

\* search_events applied to the arguments held in query.
Search ==
    /\ query' = [query EXCEPT
                    !.done = TRUE,
                    !.rows = search_events(conn, query.keyword, query.start, query.end,
                                           query.ext_filter, query.event_types)]
    /\ UNCHANGED <<disk, conn, watcher, threads, main, ui, log, ops, csv, call>>

\* export_csv applied to the connection.
Export ==
    /\ csv' = export_csv(conn)
    /\ UNCHANGED <<disk, conn, watcher, threads, main, ui, log, ops, query, call>>

QNext ==
    \/ Search
    \/ Export

QuerySpec == QInit /\ [][QNext]_vars

\* ---------------------------------------------- functions applied on their own
\* Words a phrase is made of: today, last week, delete, create, .TXT, xlsx,
\* word processor, a date, a range of dates, report, a range of dates whose
\* second date is the earlier one.
NlqWords ==
    {<<"U+C624", "U+B298">>,
     <<"U+C9C0", "U+B09C", "U+C8FC">>,
     <<"U+C0AD", "U+C81C">>,
     <<"U+C0DD", "U+C131">>,
     <<".", "T", "X", "T">>,
     <<"x", "l", "s", "x">>,
     <<"U+C6CC", "U+B4DC">>,
     <<"2", "0", "2", "4", "-", "0", "5", "-", "0", "1">>,
     <<"2", "0", "2", "4", "-", "0", "5", "-", "0", "1", "~", "2", "0", "2", "4", "-", "0", "5", "-", "0", "3">>,
     <<"U+BCF4", "U+ACE0", "U+C11C">>,
     <<"2", "0", "2", "4", "-", "0", "5", "-", "0", "3", "~", "2", "0", "2", "4", "-", "0", "5", "-", "0", "1">>}

\* The phrases of at most n words, single spaces between them.
RECURSIVE PhrasesOf(_)
PhrasesOf(n) ==
    IF n = 0 THEN {<<>>}
    ELSE LET P == PhrasesOf(n - 1)
         IN  P \cup NlqWords \cup {ph \o <<" ">> \o w : ph \in P \ {<<>>}, w \in NlqWords}

\* What a memo is made of: among the pieces a line longer than a title, and a
\* line break followed by a line such that two of them are longer than the
\* details.
MemoPieces ==
    {<<"A">>, <<"B", "\n", "C">>, <<" ">>, <<"\n">>, <<"\n", "\n">>,
     [k \in 1..(TITLE_MAX + 10) |-> "L"],
     <<"\n">> \o [k \in 1..(DETAILS_MAX \div 2 + 50) |-> "M"]}

\* The memos of at most n pieces.
RECURSIVE MemosOf(_)
MemosOf(n) ==
    IF n = 0 THEN {<<>>}
    ELSE LET M == MemosOf(n - 1) IN M \cup {t \o pc : t \in M, pc \in MemoPieces}

\* The absolute paths of at most n components.
RECURSIVE PathsOf(_)
PathsOf(n) ==
    IF n = 0 THEN {<<>>}
    ELSE LET P == PathsOf(n - 1)
         IN  P \cup {Append(q, c) : q \in P,
                        c \in {"home", "u", "docs", "etc", "gone", "link", "..", "NUL"}}

\* The days from 20 December 2024 on, at three times of the day.
DayInputs ==
    {[day |-> toordinal(2024, 12, 20) + k, sec |-> t] :
        k \in 0..(MaxDays - 1), t \in {0, 32400, LAST_SECOND}}

\* The application as App.__init__ leaves it, and one function with its
\* arguments: parse_nl_query with a phrase and what datetime.now() gives (a
\* Wednesday, the last day of a year); parse_memo with a memo;
\* is_safe_watch_dir with a path; next_business_day with the current time and
\* what int(e_rhour) gives in save_pending_dialog.
CallInit ==
    /\ conn = InitialDb
    /\ disk = conn
    /\ watcher = NoWatcher
    /\ threads = [i \in ThreadIds |-> NoThread]
    /\ main = Idle
    /\ ui = "none"
    /\ log = 0
    /\ ops = 0
    /\ query = NoQuery
    /\ csv = <<>>
    /\ call \in
          {[fn |-> "parse_nl_query", done |-> FALSE, nlq |-> ph, now |-> now, out |-> NoNl] :
              ph \in PhrasesOf(MaxTokens),
              now \in {[y |-> 2024, m |-> 5, d |-> 1], [y |-> 2024, m |-> 12, d |-> 31]}}
          \cup {[fn |-> "parse_memo", done |-> FALSE, text |-> t, out |-> <<>>] :
                   t \in MemosOf(MaxPieces)}
          \cup {[fn |-> "is_safe_watch_dir", done |-> FALSE, path |-> q, out |-> FALSE] :
                   q \in PathsOf(MaxDepth)}
          \cup {[fn |-> "next_business_day", done |-> FALSE, dt |-> dt, hour |-> h,
                 out |-> [raised |-> FALSE, day |-> 0, sec |-> 0]] :
                   dt \in DayInputs, h \in {0, DEFAULT_REMIND_HOUR, 23, 25, -1}}

\* parse_nl_query applied to the phrase held in call.
Translate ==
    /\ call.fn = "parse_nl_query"
    /\ call' = [call EXCEPT !.done = TRUE, !.out = parse_nl_query(call.nlq, call.now)]
    /\ UNCHANGED <<disk, conn, watcher, threads, main, ui, log, ops, query, csv>>

\* parse_memo applied to the memo held in call.
ParseMemo ==
    /\ call.fn = "parse_memo"
    /\ call' = [call EXCEPT !.done = TRUE, !.out = parse_memo(call.text)]
    /\ UNCHANGED <<disk, conn, watcher, threads, main, ui, log, ops, query, csv>>

\* is_safe_watch_dir applied to the path held in call.
IsSafe ==
    /\ call.fn = "is_safe_watch_dir"
    /\ call' = [call EXCEPT !.done = TRUE, !.out = is_safe_watch_dir(call.path)]
    /\ UNCHANGED <<disk, conn, watcher, threads, main, ui, log, ops, query, csv>>

\* save_pending_dialog, line 469: next_business_day applied to the current
\* time and the hour of the entry.
DueDay ==
    /\ call.fn = "next_business_day"
    /\ call' = [call EXCEPT !.done = TRUE, !.out = next_business_day(call.dt, call.hour)]
    /\ UNCHANGED <<disk, conn, watcher, threads, main, ui, log, ops, query, csv>>

CallNext ==
    \/ Translate
    \/ ParseMemo
    \/ IsSafe
    \/ DueDay

CallSpec == CallInit /\ [][CallNext]_vars

\* ------------------------------------------------- the search form (App)
\* Any store, and what the entries of the search form can hold.  e_fexts is
\* given as mult.split(';') sees it once the whole text is stripped; e_from and
\* e_to hold nothing or a date and a time of day with no blank around them,
\* which strip() returns as they are; e_nlq holds nothing, word processor,
\* today delete, or .TXT report.
RefreshInit ==
    /\ conn \in StoresOf(MaxRows)
    /\ disk = conn
    /\ watcher = NoWatcher
    /\ threads = [i \in ThreadIds |-> NoThread]
    /\ main = Idle
    /\ ui = "none"
    /\ log = 0
    /\ ops = 0
    /\ query = NoQuery
    /\ csv = <<>>
    /\ call \in {[fn |-> "refresh_table", done |-> FALSE,
                  now |-> [y |-> 2024, m |-> 5, d |-> 1],
                  e_search |-> k, e_from |-> st, e_to |-> en, var_multi |-> vm,
                  e_fext |-> x, e_fexts |-> xs, e_nlq |-> ph] :
                    k \in {<<>>, <<"N">>},
                    st \in {<<>>, IsoSpace([day |-> 2, sec |-> 0])},
                    en \in {<<>>, IsoSpace([day |-> 2, sec |-> 9])},
                    vm \in BOOLEAN,
                    x \in {<<>>, <<".", "T", "X", "T", " ">>},
                    xs \in {<< <<>> >>,
                            << <<"D", "O", "C">>, <<" ", ".", "t", "x", "t">>, <<" ">> >>},
                    ph \in {<<>>,
                            <<"U+C6CC", "U+B4DC">>,
                            TODAY \o <<" ", "U+C0AD", "U+C81C">>,
                            <<".", "T", "X", "T", " ", "U+BCF4", "U+ACE0", "U+C11C">>}}

\* line 436: the segments of e_fexts that are not blank, a dot put before
\* those that have none.
RECURSIVE MultiExts(_)
MultiExts(segs) ==
    IF segs = <<>> THEN <<>>
    ELSE LET e == Head(segs)
         IN  (IF Strip(e) = <<>> THEN <<>>
              ELSE IF StartsWithDot(e) THEN <<Lower(e)>>
              ELSE << <<".">> \o Lower(e) >>)
             \o MultiExts(Tail(segs))

\* lines 433-440: the ext_filter refresh_table passes on.
ExtFilterOf(f, nl) ==
    IF f.var_multi
    THEN IF f.e_fexts # << <<>> >> THEN [list |-> TRUE, v |-> MultiExts(f.e_fexts)]
         ELSE IF nl.empty THEN [list |-> FALSE, v |-> <<>>]
         ELSE [list |-> TRUE, v |-> nl.extensions]
    ELSE IF Strip(Lower(f.e_fext)) # <<>> THEN [list |-> FALSE, v |-> Strip(Lower(f.e_fext))]
         ELSE IF nl.extensions # <<>> THEN [list |-> FALSE, v |-> nl.extensions[1]]
         ELSE [list |-> FALSE, v |-> <<>>]

\* App.refresh_table: the form is read, the phrase translated, search_events
\* called and the table filled with its rows.
refresh_table ==
    /\ call.fn = "refresh_table"
    /\ LET nl == IF Strip(call.e_nlq) # <<>> THEN parse_nl_query(Strip(call.e_nlq), call.now)
                 ELSE NoNl
           ext_filter == ExtFilterOf(call, nl)
           start_v == IF call.e_from # <<>> THEN call.e_from ELSE nl.start
           end_v   == IF call.e_to # <<>> THEN call.e_to ELSE nl.end
           keyword == JoinSpace(SelectSeq(<<Strip(call.e_search), nl.keyword>>,
                                          LAMBDA x : x # <<>>))
       IN  query' = [done |-> TRUE, keyword |-> keyword, start |-> start_v, end |-> end_v,
                     ext_filter |-> ext_filter, event_types |-> nl.event_types,
                     rows |-> search_events(conn, keyword, start_v, end_v, ext_filter,
                                            nl.event_types)]
    /\ call' = [call EXCEPT !.done = TRUE]
    /\ UNCHANGED <<disk, conn, watcher, threads, main, ui, log, ops, csv>>

RefreshSpec == RefreshInit /\ [][refresh_table]_vars

\* ================================================================ claims
IsPrefixSeq(a, b) == Len(a) <= Len(b) /\ SubSeq(b, 1, Len(a)) = a

Running(w) == w.observer # 0

\* ---------------------------------------------------------------------- C1
\* C1 (as claimed): a row enters the event store only from a file notification
\* whose lowercased extension the handler's allow-list admits (any, when the
\* list is empty), and every such notification whose INSERT went through is in
\* the committed store when its callback returns.
C1_FilteredAndPersisted ==
    [][\A i \in ThreadIds :
          /\ (threads[i].pc = "idle" /\ threads'[i].pc = "commit") =>
                /\ ~threads'[i].cb.ev.is_directory
                /\ threads[i].exts # {} => threads'[i].cb.row.ext \in threads[i].exts
          /\ (threads[i].pc = "commit" /\ threads'[i].pc # "commit") =>
                threads[i].cb.row \in Range(disk'.file_events)]_vars

\* ---------------------------------------------------------------------- C2
\* C2: a callback that passes the filter executes exactly one INSERT (one row
\* appended to the connection, none at commit); a failing INSERT is caught in
\* _log: it writes one log line, leaves the committed rows as they were, never
\* ends the observer thread, and leaves the thread ready for the next
\* notification with its handler unchanged.
C2_OneInsertFailureContained ==
    [][\A i \in ThreadIds :
          /\ threads'[i].state # "crashed"
          /\ (threads[i].pc = "idle" /\ threads'[i].pc = "commit") =>
                /\ conn'.file_events = Append(conn.file_events, threads'[i].cb.row)
                /\ disk' = disk
          /\ (threads[i].pc = "commit" /\ threads'[i].pc # "commit") =>
                conn'.file_events = conn.file_events
          /\ log' # log =>
                /\ log' = log + 1
                /\ disk'.file_events = disk.file_events
                /\ threads' = threads]_vars

\* A thread has executed an INSERT after a failure was logged.
C2_Witness ==
    \E i \in ThreadIds :
        /\ threads[i].pc = "commit"
        /\ log > 0
        /\ \A j \in ThreadIds \ {i} : threads[j].state = "none"

\* ---------------------------------------------------------------------- C3
\* C3: the committed file_events table only grows at its end: no committed row
\* is changed or removed, and every row newly committed has an id greater than
\* the id of every row committed before it.
C3_AppendOnly ==
    [][/\ IsPrefixSeq(disk.file_events, disk'.file_events)
       /\ \A k \in DOMAIN disk'.file_events :
             \A j \in DOMAIN disk'.file_events :
                 (j < k /\ k > Len(disk.file_events)) =>
                     disk'.file_events[j].id < disk'.file_events[k].id]_vars

\* Two events are committed, and so are a settings update and a task save.
C3_Witness ==
    /\ Len(disk.file_events) >= 2
    /\ disk.settings.watch_dir # << <<>> >>
    /\ disk.tasks # <<>>

\* ---------------------------------------------------------------------- C4
\* C4 (as claimed): a start requested while the watcher runs ends at once with
\* an error shown, and the watcher and its observer thread stay as they were.
C4_StartWhileRunningFails ==
    [][(main.op = "start_watch" /\ main.step = "stop" /\ main' # main) =>
          /\ ui' = "error"
          /\ main' = Idle
          /\ watcher' = watcher
          /\ threads' = threads]_vars

\* C4 (amended): no step of a start requested while the watcher runs shows an
\* error for that reason.  App.start_watch stops the running observer, which
\* leaves the state "running", forgets it, and starts a new MultiWatcher on the
\* roots and extensions just entered; afterwards at most one thread is running
\* and it belongs to the new watcher.  MultiWatcher.start applied to a watcher
\* whose observer is set returns it unchanged and starts no thread.
C4_StartWhileRunningRestarts ==
    /\ [][/\ start_stop =>
               /\ threads'[watcher.observer].state # "running"
               /\ ui' = ui
               /\ main'.op = "start_watch"
          /\ start_join => (~Running(watcher') /\ ui' = ui /\ main'.op = "start_watch")
          /\ (start_new /\ ui' = "info") =>
               /\ Running(watcher')
               /\ watcher'.paths = main.dirs
               /\ watcher'.exts = main.exts
               /\ threads'[watcher'.observer].paths = main.dirs
               /\ threads'[watcher'.observer].exts = FSHandler_exts(main.exts)
               /\ \A j \in ThreadIds :
                     threads'[j].state = "running" => j = watcher'.observer]_vars
    /\ [](Running(watcher) =>
             \A tid \in ThreadIds :
                 MultiWatcher_start(watcher, threads, tid) = [w |-> watcher, ths |-> threads])

\* A start was requested while the watcher ran, and its observer has been
\* told to stop.
C4_Witness ==
    /\ main.op = "start_watch"
    /\ main.step = "join"
    /\ Running(watcher)
    /\ main.dirs # watcher.paths

\* ---------------------------------------------------------------------- C5
\* C5 (as claimed): a running watcher has at least one root, and each of its
\* roots is an existing directory that passes is_safe_watch_dir.
C5_RunningHasValidRoots ==
    Running(watcher) =>
        /\ watcher.paths # <<>>
        /\ \A k \in DOMAIN watcher.paths :
              watcher.paths[k] \in ExistingDirs /\ is_safe_watch_dir(watcher.paths[k])

\* ---------------------------------------------------------------------- C6
\* C6: the watcher is Stopped (observer unset) or Running (observer set).  It
\* becomes Running only by the start of a stopped watcher and Stopped only when
\* the join of stop() returns.  stop_watch with no running watcher starts no
\* join, ends within the step, shows no error and leaves threads and store as
\* they were.  A stop() that has told the observer to stop can always take its
\* join step, that step leaves the watcher Stopped, and, the join returning
\* within its timeout, every stop() begun ends with the watcher Stopped.
C6_TwoStatesStopCompletes ==
    /\ [][/\ start_new => ~Running(watcher)
          /\ (~Running(watcher) /\ Running(watcher')) => start_new
          /\ (Running(watcher) /\ ~Running(watcher')) => (stop_join \/ start_join)
          /\ (stop_watch /\ ~Running(watcher)) =>
                /\ ~Running(watcher')
                /\ main' = Idle
                /\ ui' \in {"none", "info"}
                /\ threads' = threads
                /\ disk' = disk /\ conn' = conn
          /\ stop_join => (~Running(watcher') /\ main' = Idle /\ ui' = "info")
          /\ start_join => ~Running(watcher')]_vars
    /\ [](main.op = "stop_watch" => ENABLED stop_join)
    /\ []((main.op = "start_watch" /\ main.step = "join") => ENABLED start_join)
    /\ (main.op = "stop_watch") ~> (main = Idle /\ ~Running(watcher))
    /\ (main.op = "start_watch" /\ main.step = "join") ~> ~Running(watcher)

\* The watcher was started and then stopped: the second operation was stop_watch,
\* its join has returned and the watcher is gone.
C6_Witness ==
    /\ ops = 2
    /\ main = Idle
    /\ ui = "info"
    /\ ~watcher.made
    /\ disk.settings.watch_dir = <<DocsDir>>
    /\ disk.settings.remind_hour = DEFAULT_REMIND_HOUR
    /\ disk.tasks = <<>>

\* ---------------------------------------------------------------------- C7
\* The instant a timestamp text stands for, whichever separator it has.
ParsedTime(text) == [day |-> text[1], sec |-> text[3]]

Before(a, b) == a.day < b.day \/ (a.day = b.day /\ a.sec < b.sec)

\* Row r satisfies every field the query supplied, the time bounds read as
\* instants.
C7_Satisfies(r) ==
    /\ MatchesKeyword(r, query.keyword)
    /\ query.start # <<>> =>
          ~Before(ParsedTime(r.event_time), ParsedTime(query.start))
    /\ query.end # <<>> =>
          ~Before(ParsedTime(query.end), ParsedTime(r.event_time))
    /\ MatchesExt(r, query.ext_filter)
    /\ MatchesTypes(r, query.event_types)

\* C7 (as claimed): search_events returns at most 1000 rows, non-increasing in
\* event_time; every row returned satisfies every filter field supplied, and no
\* row of the store that satisfies them and was left out is newer than a row
\* returned.
C7_QueryContract ==
    query.done =>
        /\ Len(query.rows) <= LIMIT
        /\ \A j \in DOMAIN query.rows : \A k \in DOMAIN query.rows :
              j < k => ~Before(ParsedTime(query.rows[j].event_time),
                               ParsedTime(query.rows[k].event_time))
        /\ \A r \in Range(query.rows) : C7_Satisfies(r)
        /\ \A m \in Range(conn.file_events) \ Range(query.rows) :
              C7_Satisfies(m) =>
                  \A r \in Range(query.rows) :
                      ~Before(ParsedTime(r.event_time), ParsedTime(m.event_time))

\* ---------------------------------------------------------------------- C8
\* C8 (as claimed): in every committed state of the store the tasks of one
\* save_tasks call are all present or all absent.
C8_TaskSavesAtomic ==
    \A k \in DOMAIN disk.tasks :
        Cardinality({j \in DOMAIN disk.tasks : disk.tasks[j].call = disk.tasks[k].call})
            = disk.tasks[k].call.size

\* ---------------------------------------------------------------------- C9
\* x comes before r in descending event_time with ties in descending insertion
\* order.
C9_Newer(x, r) ==
    \/ Before(ParsedTime(r.event_time), ParsedTime(x.event_time))
    \/ x.event_time = r.event_time /\ x.id > r.id

C10_RowShape ==
    /\ \A r \in Range(conn.file_events) \cup Range(disk.file_events) :
          /\ r.event_type \in EventKinds
          /\ r.dest_path # NULL => r.event_type = "moved"
          /\ r.ext = Lower(Suffix((IF r.event_type = "moved"
                                   THEN r.dest_path ELSE r.src_path).name))
    /\ \A i \in ThreadIds :
          threads[i].pc = "commit" =>
              /\ threads[i].cb.row.event_type = threads[i].cb.ev.event_type
              /\ threads[i].cb.row.src_path = threads[i].cb.ev.src_path
              /\ threads[i].cb.row.dest_path =
                    (IF threads[i].cb.ev.event_type = "moved"
                     THEN threads[i].cb.ev.dest_path ELSE NULL)

\* A move from n.TXT to r.doc is committed with ext .doc.
C10_Witness ==
    \E r \in Range(disk.file_events) :
        /\ r.event_type = "moved"
        /\ r.dest_path = PathDoc
        /\ r.src_path = PathTxt
        /\ r.ext = <<".", "d", "o", "c">>

\* --------------------------------------------------------------------- C11
\* The extensions a row may have under ext_filter ({}: any).
C11_Admitted(ext_filter) ==
    IF ext_filter.list THEN {Lower(e) : e \in Range(ext_filter.v) \ {<<>>}}
    ELSE IF ext_filter.v = <<>> THEN {} ELSE {Lower(ext_filter.v)}

\* C11 (as claimed): refresh_table passes each filled entry on as it is and,
\* for each empty one, what the phrase gave: its start, its end, and its
\* extensions, all of them; the keyword is the entry and the phrase's keyword
\* joined by a space; the phrase's event types restrict the rows only when
\* there are some.
C11_ExplicitElseNlq ==
    (call.fn = "refresh_table" /\ call.done) =>
        LET nl == IF Strip(call.e_nlq) # <<>>
                  THEN parse_nl_query(Strip(call.e_nlq), call.now) ELSE NoNl
            filled == IF call.var_multi THEN call.e_fexts # << <<>> >>
                      ELSE Strip(call.e_fext) # <<>>
        IN  /\ query.start = (IF call.e_from # <<>> THEN call.e_from ELSE nl.start)
            /\ query.end = (IF call.e_to # <<>> THEN call.e_to ELSE nl.end)
            /\ query.keyword =
                  (IF Strip(call.e_search) # <<>> /\ nl.keyword # <<>>
                   THEN Strip(call.e_search) \o <<" ">> \o nl.keyword
                   ELSE IF Strip(call.e_search) # <<>> THEN Strip(call.e_search)
                   ELSE nl.keyword)
            /\ ~call.var_multi /\ filled
                  => C11_Admitted(query.ext_filter) = {Lower(Strip(call.e_fext))}
            /\ ~filled
                  => C11_Admitted(query.ext_filter) = {Lower(e) : e \in Range(nl.extensions)}
            /\ \A k \in DOMAIN query.rows :
                  nl.event_types # <<>> => query.rows[k].event_type \in Range(nl.event_types)
            /\ nl.event_types = <<>> =>
                  query.rows = search_events(conn, query.keyword, query.start, query.end,
                                             query.ext_filter, <<>>)

\* --------------------------------------------------------------------- C12
Translated == call.fn = "parse_nl_query" /\ call.done

C12_Phrase ==
    TODAY \o <<" ">> \o <<"U+C0AD", "U+C81C">> \o <<" ", "x", "l", "s", "x">>

\* C12 (as claimed): for the phrase of the today cue, the delete verb and the
\* word xlsx, parse_nl_query returns the event types [deleted], extensions
\* that include .xlsx, the range from 00:00:00 to 23:59:59 of the current day,
\* and the empty keyword.
C12_TodayDeleteXlsx ==
    (Translated /\ call.nlq = C12_Phrase) =>
        LET d0 == toordinal(call.now.y, call.now.m, call.now.d)
        IN  /\ call.out.event_types = <<"deleted">>
            /\ <<".", "x", "l", "s", "x">> \in Range(call.out.extensions)
            /\ call.out.start = IsoSpace([day |-> d0, sec |-> 0])
            /\ call.out.end = IsoSpace([day |-> d0, sec |-> LAST_SECOND])
            /\ call.out.keyword = <<>>

\* --------------------------------------------------------------------- C13
\* The range of the first A~B word of the phrase whose sides are dates, and
\* the range of the first word that is a date.
RECURSIVE C13_RangeWord(_)
C13_RangeWord(toks) ==
    IF toks = <<>> THEN NoRange
    ELSE LET tok == Head(toks)
             a   == IF Contains(tok, <<"~">>)
                    THEN fromisoformat(Take(SplitTilde(tok).a, 10)) ELSE 0
             b   == IF Contains(tok, <<"~">>)
                    THEN fromisoformat(Take(SplitTilde(tok).b, 10)) ELSE 0
         IN  IF a # 0 /\ b # 0 THEN DayRange(a, b) ELSE C13_RangeWord(Tail(toks))

RECURSIVE C13_DateWord(_)
C13_DateWord(toks) ==
    IF toks = <<>> THEN NoRange
    ELSE LET day == IF Len(Head(toks)) = 10 THEN fromisoformat(Head(toks)) ELSE 0
         IN  IF day # 0 THEN DayRange(day, day) ELSE C13_DateWord(Tail(toks))

\* The range of the cue of highest priority among those the phrase holds.
C13_Expected(text, now) ==
    LET d0 == toordinal(now.y, now.m, now.d)
        t2 == RemoveSpaces(text)
        m1 == toordinal(now.y, now.m, 1)
        nm == IF now.m = 12 THEN toordinal(now.y + 1, 1, 1)
              ELSE toordinal(now.y, now.m + 1, 1)
        pm == IF now.m = 1 THEN toordinal(now.y - 1, 12, 1)
              ELSE toordinal(now.y, now.m - 1, 1)
    IN  IF Contains(t2, TODAY) THEN DayRange(d0, d0)
        ELSE IF Contains(t2, YESTERDAY) THEN DayRange(d0 - 1, d0 - 1)
        ELSE IF Contains(t2, THIS_WEEK)
             THEN DayRange(d0 - weekday(d0), d0 - weekday(d0) + 6)
        ELSE IF Contains(t2, LAST_WEEK)
             THEN DayRange(d0 - weekday(d0) - 7, d0 - weekday(d0) - 1)
        ELSE IF Contains(t2, THIS_MONTH) THEN DayRange(m1, nm - 1)
        ELSE IF Contains(t2, LAST_MONTH) THEN DayRange(pm, m1 - 1)
        ELSE IF ~C13_RangeWord(Split(text)).none THEN C13_RangeWord(Split(text))
        ELSE C13_DateWord(Split(text))

\* C13 (as claimed): the bounds parse_nl_query returns are those of the cue of
\* highest priority that the phrase holds (today, yesterday, this week, last
\* week, this month, last month, an A~B range, the first date), wherever the
\* cues stand in the phrase, and are unset when it holds none.
C13_FirstRuleWins ==
    Translated =>
        LET r == C13_Expected(Strip(call.nlq), call.now)
        IN  /\ call.out.start = (IF r.none THEN <<>> ELSE IsoSpace(r.s))
            /\ call.out.end = (IF r.none THEN <<>> ELSE IsoSpace(r.e))

\* --------------------------------------------------------------------- C14
\* Word tok of the phrase was used by the date pass, the event-type pass or
\* the extension pass.
C14_Consumed(tok) ==
    \/ \E cue \in {TODAY, YESTERDAY, THIS_WEEK, LAST_WEEK, THIS_MONTH, LAST_MONTH} :
           Contains(tok, cue)
    \/ call.out.start # <<>> /\ ~C13_RangeWord(<<tok>>).none
    \/ call.out.start # <<>> /\ ~C13_DateWord(<<tok>>).none
    \/ \E k \in DOMAIN events_map : Contains(tok, events_map[k].k)
    \/ StartsWithDot(tok) /\ Len(tok) <= 6
    \/ \E k \in DOMAIN ext_syn : Contains(Lower(tok), Lower(ext_syn[k].k))

\* C14 (as claimed): no word of the keyword parse_nl_query returns is a word
\* that gave the date range, holds an event-type form or gave an extension.
C14_KeywordIsResidual ==
    Translated => \A tok \in Range(Split(call.out.keyword)) : ~C14_Consumed(tok)

\* --------------------------------------------------------------------- C15
\* Where in the text a form of event type v first stands (0: nowhere).
C15_FirstAt(text, v) ==
    LET at == {i \in DOMAIN text :
                  \E k \in DOMAIN events_map :
                      /\ events_map[k].v = v
                      /\ i + Len(events_map[k].k) - 1 <= Len(text)
                      /\ SubSeq(text, i, i + Len(events_map[k].k) - 1) = events_map[k].k}
    IN  IF at = {} THEN 0 ELSE CHOOSE i \in at : \A j \in at : i <= j

\* C15 (as claimed): event_types and extensions hold no element twice, and
\* event_types lists the types in the order in which they first stand in the
\* text.
C15_NoDuplicatesInOrder ==
    Translated =>
        /\ Cardinality(Range(call.out.event_types)) = Len(call.out.event_types)
        /\ Cardinality(Range(call.out.extensions)) = Len(call.out.extensions)
        /\ \A j \in DOMAIN call.out.event_types : \A k \in DOMAIN call.out.event_types :
              j < k => C15_FirstAt(Strip(call.nlq), call.out.event_types[j])
                          < C15_FirstAt(Strip(call.nlq), call.out.event_types[k])

\* --------------------------------------------------------------------- C16
\* C16 (as claimed): once save_tasks has returned, the store holds one pending
\* task with the given due date for each selected item of the memo and none
\* for any other, and get_due_tasks of that date returns exactly the pending
\* tasks of that date, by ascending id.
C16_OneTaskPerSelectedItem ==
    [][save_commit =>
          LET due  == get_due_tasks(disk', main.due_date)
              mine == {k \in DOMAIN due : due[k].id > main.call.start}
          IN  /\ Cardinality(mine) = main.call.size
              /\ \A j \in DOMAIN due : \A k \in DOMAIN due : j < k => due[j].id < due[k].id
              /\ {due[k].id : k \in DOMAIN due}
                    = {t.id : t \in {x \in Range(disk'.tasks) :
                                        x.due_date = main.due_date /\ x.status = "pending"}}
      ]_vars

\* --------------------------------------------------------------------- C17
\* C17 (as claimed): in every committed state the one row of settings holds a
\* remind_hour from 0 to 23.
C17_RemindHourInRange ==
    disk.settings.remind_hour \in 0..23

\* --------------------------------------------------------------------- C18
\* The number of line breaks that stand right before place i of t.
C18_BreaksBefore(t, i) ==
    Cardinality({k \in 1..(i - 1) : \A j \in (i - k)..(i - 1) : t[j] = "\n"})

\* The places where a blank-line boundary begins: two line breaks, an even
\* number of line breaks right before them.
C18_Cuts(t) ==
    {i \in 1..(Len(t) - 1) :
        t[i] = "\n" /\ t[i + 1] = "\n" /\ C18_BreaksBefore(t, i) % 2 = 0}

\* The blocks between the boundaries, in order.
C18_Blocks(t) ==
    LET cuts == C18_Cuts(t)
        nth(k) == CHOOSE c \in cuts : Cardinality({x \in cuts : x < c}) = k - 1
    IN  [k \in 1..(Cardinality(cuts) + 1) |->
            SubSeq(t, IF k = 1 THEN 1 ELSE nth(k - 1) + 2,
                      IF k = Cardinality(cuts) + 1 THEN Len(t) ELSE nth(k) - 1)]

\* The item of a trimmed block b that is not blank: the title is what stands
\* before the first line break, the details what stands after it with a space
\* for each line break, each cut to its length.
C18_Item(i, b) ==
    LET brk == {j \in DOMAIN b : b[j] = "\n"}
        nl  == IF brk = {} THEN Len(b) + 1 ELSE CHOOSE j \in brk : \A x \in brk : j <= x
        tn  == IF nl - 1 < TITLE_MAX THEN nl - 1 ELSE TITLE_MAX
        dn  == IF Len(b) - nl < DETAILS_MAX
               THEN (IF Len(b) < nl THEN 0 ELSE Len(b) - nl) ELSE DETAILS_MAX
    IN  [idx     |-> i,
         title   |-> [j \in 1..tn |-> b[j]],
         details |-> [j \in 1..dn |-> IF b[nl + j] = "\n" THEN " " ELSE b[nl + j]]]

C18_Expected(text) ==
    LET kept == SelectSeq(C18_Blocks(Strip(text)), LAMBDA b : Strip(b) # <<>>)
    IN  [i \in DOMAIN kept |-> C18_Item(i, Strip(kept[i]))]

\* C18: parse_memo cuts the memo at its blank-line boundaries, trims the
\* blocks, leaves out the blank ones and numbers the others 1..n in order; the
\* title of an item is the first line of its block cut to 120 characters, its
\* details are the other lines joined by single spaces and cut to 500.
C18_MemoItems ==
    (call.fn = "parse_memo" /\ call.done) =>
        /\ call.out = C18_Expected(call.text)
        /\ \A i \in DOMAIN call.out : call.out[i].idx = i

\* The memo A, a blank line, B, C has given the items (1, A, empty) and
\* (2, B, C).
C18_Witness ==
    /\ call.fn = "parse_memo" /\ call.done
    /\ call.text = <<"A", "\n", "\n", "B", "\n", "C">>
    /\ call.out = <<[idx |-> 1, title |-> <<"A">>, details |-> <<>>],
                    [idx |-> 2, title |-> <<"B">>, details |-> <<"C">>]>>

\* --------------------------------------------------------------------- C19
\* Directory q exists: it is one of the existing directories or above one.
C19_Exists(q) == \E d \in ExistingDirs : IsPrefixSeq(q, d)

\* C19 (as claimed): is_safe_watch_dir returns a truth value, and returns True
\* exactly when the path resolves (it is well formed and what it resolves to
\* exists) to the home directory or to something below it.
C19_SafeIffUnderHome ==
    (call.fn = "is_safe_watch_dir" /\ call.done) =>
        /\ call.out \in BOOLEAN
        /\ call.out = (/\ ~Malformed(call.path)
                       /\ C19_Exists(Resolve(call.path))
                       /\ IsPrefixSeq(HomeDir, Resolve(call.path)))

\* --------------------------------------------------------------------- C20
\* C20 (as claimed): for every current date, next_business_day returns the
\* first day after it that is a Monday to a Friday, at the configured hour,
\* minutes and seconds zero.
C20_NextBusinessDay ==
    (call.fn = "next_business_day" /\ call.done) =>
        /\ ~call.out.raised
        /\ call.out.day > call.dt.day
        /\ weekday(call.out.day) \in 0..4
        /\ \A d \in (call.dt.day + 1)..(call.out.day - 1) : weekday(d) \in {5, 6}
        /\ call.out.sec = call.hour * 3600

\* --------------------------------------------------------------------- C21
\* C21 (as claimed): parse_nl_query sets start and end together or not at all;
\* when they are set, start is 00:00:00 of its day, end is 23:59:59 of its
\* day, and start is not later than end, for A~B ranges too.
C21_BoundsOrdered ==
    Translated =>
        /\ (call.out.start = <<>>) <=> (call.out.end = <<>>)
        /\ call.out.start # <<>> =>
              /\ call.out.start[3] = 0
              /\ call.out.end[3] = LAST_SECOND
              /\ call.out.start[1] <= call.out.end[1]

\* --------------------------------------------------------------------- C22
\* The directory field d is empty, or one of the roots it lists does not exist
\* or lies outside the home directory.
C22_Rejected(d) ==
    \/ d = << <<>> >>
    \/ \E k \in DOMAIN d :
          d[k] # <<>> /\ (d[k] \notin ExistingDirs \/ ~IsPrefixSeq(HomeDir, d[k]))

\* C22: a start_watch that validation rejects ends there and changes nothing:
\* the settings row, committed or on the connection, keeps its watch_dir and
\* extensions, and the watcher, if one is running, keeps its observer threads,
\* its roots and its allow-list.
C22_RejectedStartChangesNothing ==
    [][\A d \in DirInputs : \A x \in ExtInputs :
          (start_watch(d, x) /\ C22_Rejected(d)) =>
              /\ main' = Idle
              /\ disk' = disk
              /\ conn' = conn
              /\ watcher' = watcher
              /\ threads' = threads
      ]_vars

\* A start request has been rejected for a bad root while the watcher started
\* on ~/docs is running: the watcher and the settings row are as they were.
C22_Witness ==
    /\ ui = "error"
    /\ main = Idle
    /\ Running(watcher)
    /\ watcher.paths = <<DocsDir>>
    /\ disk.settings.watch_dir = <<DocsDir>>
    /\ \E i \in ThreadIds : threads[i].state = "running"

\* --------------------------------------------------------------------- C23
\* C23 (as claimed): at any time at most one observer thread takes
\* notifications, and it is the observer of the current watcher; and once
\* stop_watch has returned (no watcher, the foreground idle) no further row
\* enters the committed store.
C23_OneSubscriptionNoneAfterStop ==
    /\ [](/\ Cardinality({i \in ThreadIds : threads[i].state = "running"}) <= 1
          /\ \A i \in ThreadIds : threads[i].state = "running" => watcher.observer = i)
    /\ [][(~watcher.made /\ main = Idle) => disk'.file_events = disk.file_events]_vars

====
